---- MODULE Spec2Model ----
(***************************************************************************)
(* A model of the catalog production driver of planet4                     *)
(* (src/planet4/catalog_production.py): the ReleaseManager's todo list,    *)
(* the parallel clustering and fnotching batches, the sequential           *)
(* marking-id pass and the two identifier generators.                      *)
(*                                                                         *)
(* Observation ids are the naturals 1..MaxObs (HiRISE obsids compare as    *)
(* strings the way these compare as numbers).  The output filesystem is    *)
(* the per-observation part of the catalog folder: whether the output      *)
(* directory of an observation exists, and the L1A clustering files of     *)
(* its tiles, each a list of rows of which only the marking_id is kept.    *)
(*                                                                         *)
(* Further parts: merge_all and merge_fnotch_results on the catalog        *)
(* tables, the angle clean-up of reduction.py and the arm length of        *)
(* markings.P4_Fan, each with a specification of its own.                  *)
(***************************************************************************)
EXTENDS Integers, Sequences, FiniteSets, TLC

\* ------------------------------------------------------------------ bounds
MaxObs == 2
MaxRows == 2

Obs == 1..MaxObs
Kinds == {"fans", "blotches"}
TileSeq == <<"t1", "t2">>
TileSet == {TileSeq[i] : i \in 1..Len(TileSeq)}

Range(s) == {s[i] : i \in 1..Len(s)}

\* ------------------------------------------------- identifier generators
\* string.digits + "abcdef"
Alphabet == <<"0", "1", "2", "3", "4", "5", "6", "7", "8", "9",
              "a", "b", "c", "d", "e", "f">>
\* repeat=6
IdLen == 6

NoId == <<>>
ZeroInd == [i \in 1..IdLen |-> 0]
NoGen == [prefix |-> "", ind |-> <<>>, stopped |-> TRUE]

\* itertools.product advances the rightmost index first; an index that runs
\* off its pool goes back to 0 and carries to the left; when the leftmost one
\* runs off, the iterator is exhausted.
RECURSIVE product_advance(_, _)
product_advance_wraps(g, i) ==
    IF i = 0 THEN [g EXCEPT !.ind = ZeroInd]
    ELSE IF g.ind[i] + 1 = Len(Alphabet)
         THEN product_advance([g EXCEPT !.ind[i] = 0], i - 1)
         ELSE [g EXCEPT !.ind[i] = @ + 1]
product_advance_no_carry(g, i) ==
    IF i = 0 THEN [g EXCEPT !.stopped = TRUE]
    ELSE IF g.ind[i] + 1 = Len(Alphabet)
         THEN [g EXCEPT !.ind[i] = 0]
         ELSE [g EXCEPT !.ind[i] = @ + 1]
product_advance(g, i) ==
    IF i = 0 THEN [g EXCEPT !.stopped = TRUE]
    ELSE IF g.ind[i] + 1 = Len(Alphabet)
         THEN product_advance([g EXCEPT !.ind[i] = 0], i - 1)
         ELSE [g EXCEPT !.ind[i] = @ + 1]

blotch_id_generator_F == [prefix |-> "F", ind |-> ZeroInd, stopped |-> FALSE]
fan_id_generator == [prefix |-> "F", ind |-> ZeroInd, stopped |-> FALSE]
blotch_id_generator == [prefix |-> "B", ind |-> ZeroInd, stopped |-> FALSE]

\* "F" + "".join(newid)
gen_yield(g) == <<g.prefix>> \o [i \in 1..IdLen |-> Alphabet[g.ind[i] + 1]]

\* next(id_): the next identifier, or StopIteration from an exhausted generator.
gen_next(g) ==
    IF g.stopped
    THEN [raised |-> TRUE, id |-> NoId, gen |-> g]
    ELSE [raised |-> FALSE, id |-> gen_yield(g), gen |-> product_advance(g, IdLen)]

\* for _ in range(df.shape[0]): marking_ids.append(next(id_))
RECURSIVE draw_ids(_, _)
draw_ids(g, n) ==
    IF n = 0 THEN [raised |-> FALSE, ids |-> <<>>, gen |-> g]
    ELSE LET r == gen_next(g)
         IN IF r.raised THEN [raised |-> TRUE, ids |-> <<>>, gen |-> r.gen]
            ELSE LET rest == draw_ids(r.gen, n - 1)
                 IN [raised |-> rest.raised,
                     ids |-> <<r.id>> \o rest.ids,
                     gen |-> rest.gen]

\* --------------------------------------------------------------- L1A files
\* A csv file of one kind in one tile's L1A folder: absent, or its rows.
AbsentFile == [present |-> FALSE, ids |-> <<>>]
FileOf(ids) == [present |-> TRUE, ids |-> ids]
NoFiles == [t \in TileSet |-> [k \in Kinds |-> AbsentFile]]

\* One kind of add_marking_ids' loop body: read_csv, FileNotFoundError ->
\* continue, else one next() per row, then the column is set and the file
\* written. A StopIteration leaves the file as it was. drawn: what next()
\* returned on the way.
add_ids_to_file_draws_for_absent(file, g) ==
    LET r == draw_ids(g, IF file.present THEN Len(file.ids) ELSE 1)
    IN [raised |-> r.raised,
        file |-> IF r.raised \/ ~file.present THEN file ELSE FileOf(r.ids),
        gen |-> r.gen,
        drawn |-> IF file.present THEN r.ids ELSE <<>>]
add_ids_to_file(file, g) ==
    IF ~file.present
    THEN [raised |-> FALSE, file |-> file, gen |-> g, drawn |-> <<>>]
    ELSE LET r == draw_ids(g, Len(file.ids))
         IN [raised |-> r.raised,
             file |-> IF r.raised THEN file ELSE FileOf(r.ids),
             gen |-> r.gen,
             drawn |-> r.ids]

\* add_marking_ids(path, fan_id, blotch_id): fans first, then blotches.
add_marking_ids(path, fan_gen, blotch_gen) ==
    LET f == add_ids_to_file(path["fans"], fan_gen)
        b == IF f.raised
             THEN [raised |-> TRUE, file |-> path["blotches"],
                   gen |-> blotch_gen, drawn |-> <<>>]
             ELSE add_ids_to_file(path["blotches"], blotch_gen)
    IN [raised |-> b.raised,
        path |-> [k \in Kinds |-> IF k = "fans" THEN f.file ELSE b.file],
        fan_id |-> f.gen,
        blotch_id |-> b.gen,
        drawn |-> [k \in Kinds |-> IF k = "fans" THEN f.drawn ELSE b.drawn],
        requests |-> [k \in Kinds |->
            IF k = "fans"
            THEN Len(f.drawn) + (IF f.raised THEN 1 ELSE 0)
            ELSE Len(b.drawn) + (IF b.raised /\ ~f.raised THEN 1 ELSE 0)]]

\* --------------------------------------------------------- clustering data
\* What the clustering of a tile writes: per kind no file, or a file of n
\* rows. The database fixes it, so clustering an observation again writes
\* the same rows. A layout is <<rows of fans, rows of blotches>>, -1: no file;
\* a database deals the layouts to the tiles of the observations in turn.
Layouts == << <<1, 1>>, <<-1, MaxRows>>, <<MaxRows, -1>>, <<0, 1>> >>
Databases == {1, 2}

TileIndex(t) == CHOOSE j \in 1..Len(TileSeq) : TileSeq[j] = t
LayoutOf(d, o, t) == Layouts[((d + o + TileIndex(t)) % Len(Layouts)) + 1]
KindIndex(k) == IF k = "fans" THEN 1 ELSE 2

\* DBScanner.cluster_image_name: the L1A files of every tile, without ids.
cluster_image_name(d, o) ==
    [t \in TileSet |->
        [k \in Kinds |->
            LET n == LayoutOf(d, o, t)[KindIndex(k)]
            IN IF n < 0 THEN AbsentFile ELSE FileOf([i \in 1..n |-> NoId])]]

\* --------------------------------------------------------- catalog tables
\* A number of a table is a fraction n/d in lowest terms, or NaN (a missing
\* value). vote_ratio is counted in tenths, a pixel coordinate in units of
\* 10^-8 pixel, so that its eighth decimal digit is kept.
NaN == [n |-> 0, d |-> 0]
RECURSIVE GCD(_, _)
GCD(a, b) == IF b = 0 THEN a ELSE GCD(b, a % b)
Frac(n, d) == LET g == GCD(n, d) IN [n |-> n \div g, d |-> d \div g]
Num(k) == [n |-> k, d |-> 1]
Plus(a, b) == Frac(a.n * b.d + b.n * a.d, a.d * b.d)

RECURSIVE SumOf(_)
SumOf(vals) == IF vals = <<>> THEN Num(0) ELSE Plus(Head(vals), SumOf(Tail(vals)))

\* Series.mean(): the sum of the values that are not NaN over their count;
\* NaN when there is none.
column_mean_first(vals) == Head(vals)
column_mean(vals) ==
    LET present == SelectSeq(vals, LAMBDA v : v # NaN)
    IN IF present = <<>> THEN NaN
       ELSE LET total == SumOf(present)
            IN Frac(total.n, total.d * Len(present))

\* marking ids as they sort.
MarkingIdSeq == <<"B000001", "F000001", "F000002">>
NumericColumns == {"vote_ratio", "image_x", "image_y"}

\* df.groupby("marking_id").mean(): one row per marking_id, in the order of
\* the ids, each numeric column the mean of the group; the columns that are
\* not numeric (image_id, obsid) are left out.
group_keys_as_found(df) ==
    LET firsts == SelectSeq([i \in 1..Len(df) |-> [id |-> df[i].marking_id, at |-> i]],
                            LAMBDA e : \A j \in 1..(e.at - 1) : df[j].marking_id # e.id)
    IN [i \in 1..Len(firsts) |-> firsts[i].id]
group_keys(df) ==
    SelectSeq(MarkingIdSeq, LAMBDA m : \E i \in 1..Len(df) : df[i].marking_id = m)
group_of(df, m) == SelectSeq(df, LAMBDA row : row.marking_id = m)
column(df, c) == [i \in 1..Len(df) |-> df[i][c]]
groupby_mean(df) ==
    LET keys == group_keys(df)
    IN [j \in 1..Len(keys) |->
          [marking_id |-> keys[j],
           vote_ratio |-> column_mean(column(group_of(df, keys[j]), "vote_ratio")),
           image_x |-> column_mean(column(group_of(df, keys[j]), "image_x")),
           image_y |-> column_mean(column(group_of(df, keys[j]), "image_y"))]]

\* df.drop_duplicates(subset="marking_id"): the first row of every marking_id.
drop_duplicates(df) ==
    SelectSeq([i \in 1..Len(df) |-> [row |-> df[i], at |-> i]],
              LAMBDA e : \A j \in 1..(e.at - 1) :
                            df[j].marking_id # e.row.marking_id)

\* averaged.join(tmp[["image_id", "obsid"]], how="inner") on the marking_id
\* index, then reset_index(): the rows of averaged, each with the image_id
\* and obsid of tmp's row of the same marking_id.
RECURSIVE join_identity(_, _)
join_identity_head(averaged, tmp) ==
    [i \in 1..Len(averaged) |->
        [marking_id |-> averaged[i].marking_id,
         vote_ratio |-> averaged[i].vote_ratio,
         image_x |-> averaged[i].image_x,
         image_y |-> averaged[i].image_y,
         image_id |-> tmp[1].row.image_id,
         obsid |-> tmp[1].row.obsid]]
join_identity(averaged, tmp) ==
    IF averaged = <<>> THEN <<>>
    ELSE LET a == Head(averaged)
             m == SelectSeq(tmp, LAMBDA e : e.row.marking_id = a.marking_id)
         IN [i \in 1..Len(m) |->
                [marking_id |-> a.marking_id,
                 vote_ratio |-> a.vote_ratio,
                 image_x |-> a.image_x,
                 image_y |-> a.image_y,
                 image_id |-> m[i].row.image_id,
                 obsid |-> m[i].row.obsid]]
            \o join_identity(Tail(averaged), tmp)

\* The body of merge_fnotch_results' loop, for one of the two tables.
merge_fnotch_results_keep_all(df) == df
merge_fnotch_results(df) == join_identity(groupby_mean(df), drop_duplicates(df))

\* ------------------------------------------------------------------- state
VARIABLES
    obsids,      \* ReleaseManager._obsids
    overwrite,   \* ReleaseManager.overwrite
    todo,        \* ReleaseManager.todo, NoTodo before check_for_todo
    pc,          \* where launch_catalog_production stands
    unit,        \* the state of each parallel task of the running batch
    idq,         \* the (obsid, tile path) pairs the id pass has still to do
    fan_id,      \* the fan generator of this launch
    blotch_id,   \* the blotch generator of this launch
    error,       \* the exception that ended the driver
    exists,      \* output filesystem: the observation's directory exists
    files,       \* output filesystem: the L1A files of each tile
    fnotched,    \* output filesystem: the cut-applied output is written
    db,          \* the classification database
    called,      \* the call that made this state
    emitted,     \* per kind, the identifiers its generator has returned
    attempts,    \* per kind, the next() requests made of its generator
    finished,    \* the clustering tasks of the batch in the order they ended
    stages,      \* the stages the launch just ended ran after the batches
    folder,      \* catalog folder: the candidate table file of each kind
    meta,        \* catalog folder: the OBSERVATION_IDs of the metadata table
    ground,      \* catalog folder: the rows of the campt files of self.obsids
    mpc,         \* where merge_all stands
    tab,         \* merge_all's fans and blotches frames
    got,         \* what fan_file and blotch_file returned to merge_all
    out,         \* catalog folder: the files merge_all has written
    merr,        \* the exception that ended merge_all
    log,         \* what merge_all has printed and logged
    cols,        \* the columns of merge_all's fans and blotches frames
    frame,       \* reduction: the classification frame df being cleaned
    given,       \* reduction: the frame as it was before the angles were touched
    rpc,         \* reduction: where the angle clean-up stands
    data,        \* P4_Fan.data, the row the fan was made from
    length       \* P4_Fan: the arm length its constructor computed

mgr == <<obsids, overwrite, todo>>
drv == <<pc, unit, idq, fan_id, blotch_id, error>>
fs == <<exists, files, fnotched>>
ghost == <<emitted, attempts, finished>>
mrg == <<folder, meta, ground, mpc, tab, got, out, merr, log, cols>>
calc == <<frame, given, rpc, data, length>>
prod == <<obsids, overwrite, todo, pc, unit, idq, fan_id, blotch_id, error,
          exists, files, fnotched, db, called, emitted, attempts, finished,
          stages>>
vars == <<obsids, overwrite, todo, pc, unit, idq, fan_id, blotch_id, error,
          exists, files, fnotched, db, called, emitted, attempts, finished,
          stages, folder, meta, ground, mpc, tab, got, out, merr, log, cols,
          frame, given, rpc, data, length>>

NoTodo == <<0>>
NoCall == <<"other", "-">>
NoUnits == [o \in Obs |-> "none"]

\* merge_all has not been called: nothing read, nothing written.
AbsentTable == [present |-> FALSE, rows |-> <<>>]
NoFile == [present |-> FALSE, rows |-> <<>>, columns |-> <<>>]
TableOf(rows) == [present |-> TRUE, rows |-> rows]
NoFrames == [k \in Kinds |-> <<>>]
NoColumns == [k \in Kinds |-> <<>>]
NothingGot == [k \in Kinds |-> "unread"]
NothingWritten ==
    [tile_coords |-> FALSE, fans |-> NoFile, blotches |-> NoFile]
MergeIdle ==
    /\ folder = [k \in Kinds |-> AbsentTable]
    /\ meta = <<>>
    /\ ground = <<>>
    /\ mpc = "idle"
    /\ tab = NoFrames
    /\ got = NothingGot
    /\ out = NothingWritten
    /\ merr = "none"
    /\ log = <<>>
    /\ cols = NoColumns

\* No frame is being cleaned and no fan has been made.
NoData == [distance |-> 0, spread |-> 0]
Unset == -1
CalcIdle ==
    /\ frame = <<>>
    /\ given = <<>>
    /\ rpc = "idle"
    /\ data = NoData
    /\ length = Unset

\* Lists of distinct observation ids, in any order.
ObsLists ==
    UNION {{s \in [1..n -> Obs] : \A i, j \in 1..n : i # j => s[i] # s[j]} :
           n \in 1..MaxObs}

\* ---------------------------------------------------------- check_for_todo
\* if overwrite is None: overwrite = self.overwrite
effective_overwrite_self(arg, self_overwrite) == self_overwrite
effective_overwrite(arg, self_overwrite) ==
    IF arg = "None" THEN self_overwrite ELSE arg = "True"

\* pm.obsid_results_savefolder / obsid
path_exists(ex, o) == ex[o]

\* The loop over self.obsids that fills bucket.
RECURSIVE todo_bucket(_, _, _, _, _)
todo_bucket_all(obs, i, ow, ex, bucket) ==
    IF i > Len(obs) THEN bucket
    ELSE todo_bucket(obs, i + 1, ow, ex, Append(bucket, obs[i]))
todo_bucket_prepend(obs, i, ow, ex, bucket) ==
    IF i > Len(obs) THEN bucket
    ELSE todo_bucket(obs, i + 1, ow, ex,
                     IF path_exists(ex, obs[i]) /\ ow = FALSE
                     THEN bucket ELSE <<obs[i]>> \o bucket)
todo_bucket_inverted(obs, i, ow, ex, bucket) ==
    IF i > Len(obs) THEN bucket
    ELSE todo_bucket(obs, i + 1, ow, ex,
                     IF ~path_exists(ex, obs[i]) /\ ow = FALSE
                     THEN bucket ELSE Append(bucket, obs[i]))
todo_bucket(obs, i, ow, ex, bucket) ==
    IF i > Len(obs) THEN bucket
    ELSE todo_bucket(obs, i + 1, ow, ex,
                     IF path_exists(ex, obs[i]) /\ ow = FALSE
                     THEN bucket ELSE Append(bucket, obs[i]))

check_for_todo_mkdir(arg) ==
    /\ todo' = todo_bucket(obsids, 1, effective_overwrite(arg, overwrite),
                           exists, <<>>)
    /\ called' = <<"check_for_todo", arg>>
    /\ exists' = [o \in Obs |-> exists[o] \/ o \in Range(obsids)]
    /\ UNCHANGED <<files, fnotched>>
check_for_todo(arg) ==
    /\ todo' = todo_bucket(obsids, 1, effective_overwrite(arg, overwrite),
                           exists, <<>>)
    /\ called' = <<"check_for_todo", arg>>
    /\ UNCHANGED fs

\* ------------------------------------------------------------ the driver
NoneEmitted == [k \in Kinds |-> <<>>]
NoAttempts == [k \in Kinds |-> 0]

\* ReleaseManager.__init__, in a fresh process on the catalog folder as it is.
Construct(v, w) ==
    /\ pc \in {"idle", "crashed"}
    /\ obsids' = v
    /\ overwrite' = w
    /\ todo' = NoTodo
    /\ pc' = "idle"
    /\ unit' = NoUnits
    /\ idq' = <<>>
    /\ fan_id' = NoGen
    /\ blotch_id' = NoGen
    /\ error' = "none"
    /\ called' = NoCall
    /\ emitted' = NoneEmitted
    /\ attempts' = NoAttempts
    /\ finished' = <<>>
    /\ UNCHANGED <<fs, db>>
    /\ stages' = <<>>
    /\ UNCHANGED <<mrg, calc>>

\* rm.check_for_todo(overwrite) called on its own.
CheckForTodo(arg) ==
    /\ pc = "idle"
    /\ check_for_todo(arg)
    /\ UNCHANGED <<obsids, overwrite, drv, db, ghost>>
    /\ stages' = <<>>
    /\ UNCHANGED <<mrg, calc>>

\* launch_catalog_production: self.check_for_todo()
Launch ==
    /\ pc = "idle"
    /\ check_for_todo("None")
    /\ pc' = "checked"
    /\ UNCHANGED <<obsids, overwrite, unit, idq, fan_id, blotch_id, error, db,
                   ghost>>
    /\ stages' = <<>>
    /\ UNCHANGED <<mrg, calc>>

\* if len(self.todo) > 0: the clustering tasks are built; else on to the
\* summary files.
Branch ==
    /\ pc = "checked"
    /\ IF Len(todo) > 0
       THEN /\ pc' = "clustering"
            /\ unit' = [o \in Obs |-> IF o \in Range(todo) THEN "pending" ELSE "none"]
       ELSE /\ pc' = "post"
            /\ unit' = NoUnits
    /\ called' = NoCall
    /\ UNCHANGED <<mgr, idq, fan_id, blotch_id, error, fs, db, ghost>>
    /\ UNCHANGED <<mrg, calc, stages>>

\* A cluster_obsid task starts running.
ClusterStart(o) ==
    /\ pc = "clustering"
    /\ unit[o] = "pending"
    /\ unit' = [unit EXCEPT ![o] = "running"]
    /\ called' = NoCall
    /\ UNCHANGED <<mgr, pc, idq, fan_id, blotch_id, error, fs, db, ghost>>
    /\ UNCHANGED <<mrg, calc, stages>>

\* A cluster_obsid task ends: the observation's directory holds the L1A files
\* of all its tiles, and what fnotching made of the files before is stale.
\* (The directory is taken to appear with the task's last file: one that
\* appears earlier only adds crashed states with a half-clustered directory.)
ClusterFinish(o) ==
    /\ pc = "clustering"
    /\ unit[o] = "running"
    /\ unit' = [unit EXCEPT ![o] = "done"]
    /\ exists' = [exists EXCEPT ![o] = TRUE]
    /\ files' = [files EXCEPT ![o] = cluster_image_name(db, o)]
    /\ fnotched' = [fnotched EXCEPT ![o] = FALSE]
    /\ finished' = Append(finished, o)
    /\ called' = NoCall
    /\ UNCHANGED <<mgr, pc, idq, fan_id, blotch_id, error, db, emitted, attempts>>
    /\ UNCHANGED <<mrg, calc, stages>>

\* A task of a batch raises: dask.compute raises the task's exception in
\* launch_catalog_production, which catches nothing; the launch is over, with
\* the exception, and its generators are gone.
raise_swallowed(o, task) ==
    /\ unit[o] = "running"
    /\ unit' = [unit EXCEPT ![o] = "done"]
    /\ error' = task
    /\ called' = NoCall
    /\ UNCHANGED <<mgr, pc, idq, fan_id, blotch_id, fs, db, ghost>>
raise(o, task) ==
    /\ unit[o] = "running"
    /\ pc' = "crashed"
    /\ error' = task
    /\ unit' = NoUnits
    /\ idq' = <<>>
    /\ fan_id' = NoGen
    /\ blotch_id' = NoGen
    /\ emitted' = NoneEmitted
    /\ attempts' = NoAttempts
    /\ finished' = <<>>
    /\ called' = NoCall
    /\ UNCHANGED <<mgr, fs, db>>

\* A cluster_obsid task raises.
ClusterRaise(o) ==
    /\ pc = "clustering"
    /\ raise(o, "cluster_obsid")
    /\ UNCHANGED <<mrg, calc, stages>>

\* get_L1A_paths(obsid, savefolder): the L1A folders of the observation's tiles.
get_L1A_paths(o) == IF exists[o] THEN TileSeq ELSE <<>>

\* for obsid in self.todo: for path in get_L1A_paths(obsid, ...)
RECURSIVE id_pass_order(_, _)
id_pass_order_finished(td, i) ==
    IF i > Len(finished) THEN <<>>
    ELSE LET paths == get_L1A_paths(finished[i])
         IN [j \in 1..Len(paths) |-> <<finished[i], paths[j]>>]
                \o id_pass_order(td, i + 1)
id_pass_order(td, i) ==
    IF i > Len(td) THEN <<>>
    ELSE LET paths == get_L1A_paths(td[i])
         IN [j \in 1..Len(paths) |-> <<td[i], paths[j]>>] \o id_pass_order(td, i + 1)

\* dask.compute returned: the generators are created, the id pass begins.
ClusterJoin_early ==
    /\ pc = "clustering"
    /\ \E o \in Range(todo) : unit[o] = "done"
    /\ pc' = "idpass"
    /\ fan_id' = fan_id_generator
    /\ blotch_id' = blotch_id_generator
    /\ emitted' = NoneEmitted
    /\ attempts' = NoAttempts
    /\ finished' = finished
    /\ idq' = id_pass_order(todo, 1)
    /\ unit' = unit
    /\ called' = NoCall
    /\ UNCHANGED <<mgr, error, fs, db>>
    /\ UNCHANGED <<mrg, calc, stages>>
ClusterJoin ==
    /\ pc = "clustering"
    /\ \A o \in Range(todo) : unit[o] = "done"
    /\ pc' = "idpass"
    /\ fan_id' = fan_id_generator
    /\ blotch_id' = blotch_id_generator
    /\ emitted' = NoneEmitted
    /\ attempts' = NoAttempts
    /\ finished' = finished
    /\ idq' = id_pass_order(todo, 1)
    /\ unit' = NoUnits
    /\ called' = NoCall
    /\ UNCHANGED <<mgr, error, fs, db>>
    /\ UNCHANGED <<mrg, calc, stages>>

\* One add_marking_ids(path, fan_id, blotch_id) of the id pass. A
\* StopIteration is not caught: it ends the driver.
AddIds ==
    /\ pc = "idpass"
    /\ idq # <<>>
    /\ LET o == Head(idq)[1]
           t == Head(idq)[2]
           r == add_marking_ids(files[o][t], fan_id, blotch_id)
       IN /\ files' = [files EXCEPT ![o][t] = r.path]
          /\ fan_id' = r.fan_id
          /\ blotch_id' = r.blotch_id
          /\ emitted' = [k \in Kinds |-> emitted[k] \o r.drawn[k]]
          /\ attempts' = [k \in Kinds |-> attempts[k] + r.requests[k]]
          /\ IF r.raised
             THEN /\ pc' = "crashed"
                  /\ error' = "StopIteration"
                  /\ idq' = idq
             ELSE /\ pc' = pc
                  /\ error' = error
                  /\ idq' = Tail(idq)
    /\ called' = NoCall
    /\ UNCHANGED <<mgr, unit, exists, fnotched, db, finished>>
    /\ UNCHANGED <<mrg, calc, stages>>

\* The id pass is over: the fnotching tasks are built.
StartFnotch ==
    /\ pc = "idpass"
    /\ idq = <<>>
    /\ pc' = "fnotching"
    /\ unit' = [o \in Obs |-> IF o \in Range(todo) THEN "pending" ELSE "none"]
    /\ finished' = <<>>
    /\ called' = NoCall
    /\ UNCHANGED <<mgr, idq, fan_id, blotch_id, error, fs, db, emitted, attempts>>
    /\ UNCHANGED <<mrg, calc, stages>>

\* A fnotch_obsid task starts running.
FnotchStart(o) ==
    /\ pc = "fnotching"
    /\ unit[o] = "pending"
    /\ unit' = [unit EXCEPT ![o] = "running"]
    /\ called' = NoCall
    /\ UNCHANGED <<mgr, pc, idq, fan_id, blotch_id, error, fs, db, ghost>>
    /\ UNCHANGED <<mrg, calc, stages>>

\* A fnotch_obsid task ends: fnotch_image_ids and apply_cut have written the
\* cut output.
Fnotch_draws(o) ==
    /\ pc = "fnotching"
    /\ unit[o] = "running"
    /\ unit' = [unit EXCEPT ![o] = "done"]
    /\ fnotched' = [fnotched EXCEPT ![o] = TRUE]
    /\ fan_id' = gen_next(fan_id).gen
    /\ attempts' = [attempts EXCEPT !["fans"] = @ + 1]
    /\ called' = NoCall
    /\ UNCHANGED <<mgr, pc, idq, blotch_id, error, exists, files, db, emitted,
                   finished>>
    /\ UNCHANGED <<mrg, calc, stages>>
Fnotch(o) ==
    /\ pc = "fnotching"
    /\ unit[o] = "running"
    /\ unit' = [unit EXCEPT ![o] = "done"]
    /\ fnotched' = [fnotched EXCEPT ![o] = TRUE]
    /\ called' = NoCall
    /\ UNCHANGED <<mgr, pc, idq, fan_id, blotch_id, error, exists, files, db,
                   ghost>>
    /\ UNCHANGED <<mrg, calc, stages>>

\* A fnotch_obsid task raises.
FnotchRaise(o) ==
    /\ pc = "fnotching"
    /\ raise(o, "fnotch_obsid")
    /\ UNCHANGED <<mrg, calc, stages>>

\* dask.compute returned: on to the summary files.
FnotchJoin ==
    /\ pc = "fnotching"
    /\ \A o \in Range(todo) : unit[o] = "done"
    /\ pc' = "post"
    /\ unit' = NoUnits
    /\ called' = NoCall
    /\ UNCHANGED <<mgr, idq, fan_id, blotch_id, error, fs, db, ghost>>
    /\ UNCHANGED <<mrg, calc, stages>>

\* The stages after the per-observation work, each with the observations it
\* works on: create_roi_file(self.obsids, ...), the RED45 mosaics of
\* self.obsids, and the methods that loop over self.obsids.
StageNames ==
    << "create_roi_file", "create_RED45_mosaic", "calc_tile_coordinates",
       "calc_marking_coordinates", "calc_metadata", "merge_all" >>
post_stages_of_todo == [i \in 1..Len(StageNames) |-> <<StageNames[i], todo>>]
post_stages == [i \in 1..Len(StageNames) |-> <<StageNames[i], obsids>>]

\* create_roi_file ... merge_all: the stages after the per-observation work;
\* the launch returns and its generators are gone.
PostStages ==
    /\ pc = "post"
    /\ pc' = "idle"
    /\ fan_id' = NoGen
    /\ blotch_id' = NoGen
    /\ emitted' = NoneEmitted
    /\ attempts' = NoAttempts
    /\ finished' = <<>>
    /\ called' = NoCall
    /\ UNCHANGED <<mgr, unit, idq, error, fs, db>>
    /\ stages' = post_stages
    /\ UNCHANGED <<mrg, calc>>

\* The batch crashes: the process and what it held in memory are gone, the
\* files stay.
Crash ==
    /\ pc \in {"clustering", "idpass", "fnotching"}
    /\ pc' = "crashed"
    /\ error' = "crash"
    /\ unit' = NoUnits
    /\ idq' = <<>>
    /\ fan_id' = NoGen
    /\ blotch_id' = NoGen
    /\ emitted' = NoneEmitted
    /\ attempts' = NoAttempts
    /\ finished' = <<>>
    /\ called' = NoCall
    /\ UNCHANGED <<mgr, fs, db>>
    /\ UNCHANGED <<mrg, calc, stages>>

Init ==
    /\ obsids \in ObsLists
    /\ overwrite \in BOOLEAN
    /\ todo = NoTodo
    /\ pc = "idle"
    /\ unit = NoUnits
    /\ idq = <<>>
    /\ fan_id = NoGen
    /\ blotch_id = NoGen
    /\ error = "none"
    /\ exists = [o \in Obs |-> FALSE]
    /\ files = [o \in Obs |-> NoFiles]
    /\ fnotched = [o \in Obs |-> FALSE]
    /\ db \in Databases
    /\ called = NoCall
    /\ emitted = NoneEmitted
    /\ attempts = NoAttempts
    /\ finished = <<>>
    /\ stages = <<>>
    /\ MergeIdle
    /\ CalcIdle

Next ==
    \/ \E v \in ObsLists, w \in BOOLEAN : Construct(v, w)
    \/ \E arg \in {"None", "True", "False"} : CheckForTodo(arg)
    \/ Launch
    \/ Branch
    \/ \E o \in Obs : ClusterStart(o)
    \/ \E o \in Obs : ClusterFinish(o)
    \/ \E o \in Obs : ClusterRaise(o)
    \/ ClusterJoin
    \/ AddIds
    \/ StartFnotch
    \/ \E o \in Obs : FnotchStart(o)
    \/ \E o \in Obs : Fnotch(o)
    \/ \E o \in Obs : FnotchRaise(o)
    \/ FnotchJoin
    \/ PostStages
    \/ Crash

Spec == Init /\ [][Next]_vars

\* ------------------------------------------- the id pass of a long batch
\* The id pass of a batch whose earlier observations have already drawn
\* identifiers: the two generators stand somewhere in their sequence, the
\* observations still to do are clustered and have no ids yet.
LastSymbol == Len(Alphabet) - 1
StartInds == {Append(left, right) :
                left \in [1..(IdLen - 1) -> {0, LastSymbol}],
                right \in {0, LastSymbol - 1, LastSymbol}}

InitIdPass ==
    /\ obsids \in ObsLists
    /\ overwrite = FALSE
    /\ todo = obsids
    /\ pc = "idpass"
    /\ unit = NoUnits
    /\ error = "none"
    /\ exists = [o \in Obs |-> o \in Range(obsids)]
    /\ fnotched = [o \in Obs |-> FALSE]
    /\ db \in Databases
    /\ files = [o \in Obs |-> IF exists[o] THEN cluster_image_name(db, o) ELSE NoFiles]
    /\ idq = id_pass_order(todo, 1)
    /\ \E ind \in StartInds :
         /\ fan_id = [fan_id_generator EXCEPT !.ind = ind]
         /\ blotch_id = [blotch_id_generator EXCEPT !.ind = ind]
    /\ called = NoCall
    /\ emitted = NoneEmitted
    /\ attempts = NoAttempts
    /\ finished = <<>>
    /\ stages = <<>>
    /\ MergeIdle
    /\ CalcIdle

NextIdPass == AddIds

SpecIdPass == InitIdPass /\ [][NextIdPass]_vars

\* ------------------------------------------------------- column lists
Has(c, name) == name \in Range(c)
Without(c, names) == SelectSeq(c, LAMBDA n : n \notin names)

\* The columns of the catalogs as they are published.
FAN_COLUMNS_AS_PUBLISHED ==
    << "marking_id", "angle", "distance", "tile_id", "image_x", "image_y",
       "n_votes", "obsid", "spread", "version", "vote_ratio", "x", "y",
       "x_angle", "y_angle", "l_s", "map_scale", "north_azimuth",
       "BodyFixedCoordinateX", "BodyFixedCoordinateY", "BodyFixedCoordinateZ",
       "PlanetocentricLatitude", "PlanetographicLatitude", "Longitude" >>
BLOTCH_COLUMNS_with_version ==
    << "marking_id", "angle", "tile_id", "image_x", "image_y", "n_votes",
       "obsid", "radius_1", "radius_2", "version", "vote_ratio", "x", "y",
       "x_angle", "y_angle", "l_s", "map_scale", "north_azimuth",
       "BodyFixedCoordinateX", "BodyFixedCoordinateY", "BodyFixedCoordinateZ",
       "PlanetocentricLatitude", "PlanetographicLatitude", "Longitude" >>
BLOTCH_COLUMNS_AS_PUBLISHED ==
    << "marking_id", "angle", "tile_id", "image_x", "image_y", "n_votes",
       "obsid", "radius_1", "radius_2", "vote_ratio", "x", "y",
       "x_angle", "y_angle", "l_s", "map_scale", "north_azimuth",
       "BodyFixedCoordinateX", "BodyFixedCoordinateY", "BodyFixedCoordinateZ",
       "PlanetocentricLatitude", "PlanetographicLatitude", "Longitude" >>

\* merge_all's cols_to_merge, the columns taken from the metadata table.
cols_to_merge ==
    << "OBSERVATION_ID", "SOLAR_LONGITUDE", "north_azimuth", "map_scale" >>
\* The columns taken from the ground coordinates, and the join's keys.
COLS_TO_MERGE ==
    << "obsid", "image_x", "image_y",
       "BodyFixedCoordinateX", "BodyFixedCoordinateY", "BodyFixedCoordinateZ",
       "PlanetocentricLatitude", "PlanetographicLatitude",
       "PositiveEast360Longitude" >>
INDEX == {"obsid", "image_x", "image_y"}

\* The columns of the candidate files: the clustered marking's own columns
\* with the identifier and the vote ratio; the fans carry `version`.
StringColumns == {"marking_id", "image_id", "obsid"}
candidate_columns(k) ==
    IF k = "fans"
    THEN << "marking_id", "angle", "distance", "image_id", "image_x",
            "image_y", "n_votes", "obsid", "spread", "version", "vote_ratio",
            "x", "y", "x_angle", "y_angle" >>
    ELSE << "marking_id", "angle", "image_id", "image_x", "image_y",
            "n_votes", "obsid", "radius_1", "radius_2", "vote_ratio",
            "x", "y", "x_angle", "y_angle" >>

\* merge_fnotch_results: the mean keeps the numeric columns, the join adds
\* image_id and obsid, reset_index puts marking_id first.
merge_fnotch_columns(c) ==
    <<"marking_id">> \o Without(c, StringColumns) \o <<"image_id", "obsid">>
\* DataFrame.merge: the left frame's columns, then the right frame's without
\* the keys the two share by name.
merge_columns(c, right, on) == c \o Without(right, on)
\* DataFrame.rename of lines 432-440 and 446-454.
rename(c) ==
    [i \in DOMAIN c |->
        IF c[i] = "image_id" THEN "tile_id"
        ELSE IF c[i] = "SOLAR_LONGITUDE" THEN "l_s"
        ELSE IF c[i] = "PositiveEast360Longitude" THEN "Longitude"
        ELSE c[i]]
\* df[columns].to_csv(path, index=False): the file, with its header.
to_csv(rows, columns) ==
    [present |-> TRUE, rows |-> rows, columns |-> columns]

\* ---------------------------------------------------------------- merge_all
\* fan_file / blotch_file: the first file of the catalog folder that matches
\* the kind's pattern; without one, a line is printed and the property
\* returns None.
candidate_file(k) == IF folder[k].present THEN k ELSE "None"

\* fans.merge(meta[cols_to_merge], left_on="obsid", right_on="OBSERVATION_ID"):
\* an inner join, a row of df for each row of meta of its observation.
RECURSIVE merge_meta(_, _)
merge_meta(df, m) ==
    IF df = <<>> THEN <<>>
    ELSE LET hits == SelectSeq(m, LAMBDA id : id = Head(df).obsid)
         IN [i \in 1..Len(hits) |-> Head(df)] \o merge_meta(Tail(df), m)

\* DataFrame.round(decimals=7) of a coordinate: to the nearest multiple of
\* 10 units, a half to the even one.
Round7(v) ==
    LET q == v.n \div (10 * v.d)
        twice == 2 * (v.n - 10 * v.d * q)
    IN IF twice < 10 * v.d \/ (twice = 10 * v.d /\ q % 2 = 0)
       THEN Num(10 * q) ELSE Num(10 * (q + 1))

\* collect_marking_coordinates: the campt rows of self.obsids, concatenated,
\* without the rows that repeat an earlier one.
collect_marking_coordinates ==
    LET at == [i \in 1..Len(ground) |-> [row |-> ground[i], at |-> i]]
        kept == SelectSeq(at, LAMBDA e : \A j \in 1..(e.at - 1) : ground[j] # e.row)
    IN [i \in 1..Len(kept) |-> kept[i].row]

\* .round(decimals=7) of the ground table.
round_ground_not(g) == g
round_ground(g) ==
    [i \in 1..Len(g) |->
        [g[i] EXCEPT !.image_x = Round7(@), !.image_y = Round7(@)]]

\* fans.merge(ground[self.COLS_TO_MERGE], on=INDEX): an inner join on obsid,
\* image_x and image_y, a row of df for each row of ground with its key.
RECURSIVE merge_on_index(_, _)
merge_on_index(df, g) ==
    IF df = <<>> THEN <<>>
    ELSE LET hits == SelectSeq(g, LAMBDA c : /\ c.obsid = Head(df).obsid
                                             /\ c.image_x = Head(df).image_x
                                             /\ c.image_y = Head(df).image_y)
         IN [i \in 1..Len(hits) |-> Head(df)] \o merge_on_index(Tail(df), g)

merge_campt_results(df) ==
    merge_on_index(df, round_ground(collect_marking_coordinates))

\* vote_ratio.fillna(1, inplace=True)
VoteRatioOne == Num(10)
fillna_nothing(df) == df
fillna(df) ==
    [i \in 1..Len(df) |->
        IF df[i].vote_ratio = NaN
        THEN [df[i] EXCEPT !.vote_ratio = VoteRatioOne]
        ELSE df[i]]

\* merge_all, lines 394-397: the candidate files are looked up and read;
\* pd.read_csv(None) raises ValueError.
ReadFiles ==
    /\ mpc = "start"
    /\ LET ff == candidate_file("fans")
           bf == candidate_file("blotches")
       IN /\ got' = [k \in Kinds |->
                       IF k = "fans" THEN ff
                       ELSE IF ff = "None" THEN "unread" ELSE bf]
          /\ log' = log \o (IF ff = "None" THEN <<"print: No file found">>
                           ELSE IF bf = "None" THEN <<"print: No file found">>
                           ELSE <<>>)
          /\ IF ff = "None" \/ bf = "None"
             THEN /\ mpc' = "raised"
                  /\ merr' = "ValueError"
                  /\ tab' = tab
                  /\ cols' = cols
             ELSE /\ mpc' = "read"
                  /\ merr' = merr
                  /\ tab' = [k \in Kinds |-> folder[k].rows]
                  /\ cols' = [k \in Kinds |-> candidate_columns(k)]
    /\ UNCHANGED <<folder, meta, ground, out, prod, calc>>

\* line 400: fans, blotches = self.merge_fnotch_results(fans, blotches)
MergeFnotch ==
    /\ mpc = "read"
    /\ tab' = [k \in Kinds |-> merge_fnotch_results(tab[k])]
    /\ cols' = [k \in Kinds |-> merge_fnotch_columns(cols[k])]
    /\ mpc' = "deduped"
    /\ UNCHANGED <<folder, meta, ground, got, out, merr, log, prod, calc>>

\* lines 402-414: the metadata join.
MergeMeta ==
    /\ mpc = "deduped"
    /\ tab' = [k \in Kinds |-> merge_meta(tab[k], meta)]
    /\ cols' = [k \in Kinds |-> merge_columns(cols[k], cols_to_merge, {})]
    /\ mpc' = "meta"
    /\ UNCHANGED <<folder, meta, ground, got, out, merr, log, prod, calc>>

\* lines 416-424: the cleaned tile coordinates are written.
WriteTileCoords ==
    /\ mpc = "meta"
    /\ out' = [out EXCEPT !.tile_coords = TRUE]
    /\ mpc' = "tile_coords"
    /\ UNCHANGED <<folder, meta, ground, tab, got, merr, log, cols, prod, calc>>

\* line 427: fans, blotches = self.merge_campt_results(fans, blotches)
MergeCampt_skipped ==
    /\ mpc = "tile_coords"
    /\ mpc' = "campt"
    /\ UNCHANGED <<folder, meta, ground, tab, got, out, merr, log, cols, prod, calc>>
MergeCampt ==
    /\ mpc = "tile_coords"
    /\ tab' = [k \in Kinds |-> merge_campt_results(tab[k])]
    /\ cols' = [k \in Kinds |-> merge_columns(cols[k], COLS_TO_MERGE, INDEX)]
    /\ mpc' = "campt"
    /\ UNCHANGED <<folder, meta, ground, got, out, merr, log, prod, calc>>

\* lines 429-442: the fan catalog is filled, renamed and written with the
\* published columns; a published column the frame lacks is a KeyError, and
\* fans.version of a frame without that column an AttributeError.
WriteFans ==
    /\ mpc = "campt"
    /\ tab' = [tab EXCEPT !["fans"] = fillna(@)]
    /\ LET renamed == rename(cols["fans"])
       IN IF ~Has(cols["fans"], "version")
          THEN /\ mpc' = "raised"
               /\ merr' = "AttributeError"
               /\ UNCHANGED <<out, log, cols>>
          ELSE /\ cols' = [cols EXCEPT !["fans"] = renamed]
               /\ IF Range(FAN_COLUMNS_AS_PUBLISHED) \subseteq Range(renamed)
                  THEN /\ out' = [out EXCEPT !.fans =
                                    to_csv(fillna(tab["fans"]),
                                           FAN_COLUMNS_AS_PUBLISHED)]
                       /\ log' = Append(log, "info: Wrote fans")
                       /\ mpc' = "fans_written"
                       /\ merr' = merr
                  ELSE /\ mpc' = "raised"
                       /\ merr' = "KeyError"
                       /\ UNCHANGED <<out, log>>
    /\ UNCHANGED <<folder, meta, ground, got, prod, calc>>

\* lines 444-458: the blotch catalog is filled, renamed and written with the
\* published columns.
WriteBlotches ==
    /\ mpc = "fans_written"
    /\ tab' = [tab EXCEPT !["blotches"] = fillna(@)]
    /\ LET renamed == rename(cols["blotches"])
       IN /\ cols' = [cols EXCEPT !["blotches"] = renamed]
          /\ IF Range(BLOTCH_COLUMNS_AS_PUBLISHED) \subseteq Range(renamed)
             THEN /\ out' = [out EXCEPT !.blotches =
                               to_csv(fillna(tab["blotches"]),
                                      BLOTCH_COLUMNS_AS_PUBLISHED)]
                  /\ log' = Append(log, "info: Wrote blotches")
                  /\ mpc' = "done"
                  /\ merr' = merr
             ELSE /\ mpc' = "raised"
                  /\ merr' = "KeyError"
                  /\ UNCHANGED <<out, log>>
    /\ UNCHANGED <<folder, meta, ground, got, prod, calc>>

\* The driver is not running while merge_all is looked at on its own.
DriverIdle ==
    /\ obsids = [i \in 1..MaxObs |-> i]
    /\ overwrite = FALSE
    /\ todo = NoTodo
    /\ pc = "idle"
    /\ unit = NoUnits
    /\ idq = <<>>
    /\ fan_id = NoGen
    /\ blotch_id = NoGen
    /\ error = "none"
    /\ exists = [o \in Obs |-> TRUE]
    /\ files = [o \in Obs |-> NoFiles]
    /\ fnotched = [o \in Obs |-> TRUE]
    /\ db = 1
    /\ called = NoCall
    /\ emitted = NoneEmitted
    /\ attempts = NoAttempts
    /\ finished = <<>>
    /\ stages = <<>>

\* Tables of at most n rows.
TablesOver(rows, n) == UNION {[1..m -> rows] : m \in 0..n}

\* The rows of a candidate table: the tile and observation they are of, and
\* the pixel position, exact or with an eighth digit.
Places == {<<"t1", 1, 100>>, <<"t1", 1, 104>>, <<"t2", 2, 100>>}
CandidateRows(ids, ratios, places) ==
    {[marking_id |-> m, vote_ratio |-> v, image_x |-> Num(pl[3]),
      image_y |-> Num(200), image_id |-> pl[1], obsid |-> pl[2]] :
        m \in ids, v \in ratios, pl \in places}
FanRows == CandidateRows({"F000001", "F000002"}, {NaN, Num(4)}, Places)
BlotchTable ==
    << [marking_id |-> "B000001", vote_ratio |-> NaN, image_x |-> Num(100),
        image_y |-> Num(200), image_id |-> "t1", obsid |-> 1] >>

GroundRow(o, x) == [obsid |-> o, image_x |-> Num(x), image_y |-> Num(200)]
GroundTables ==
    { <<>>,
      <<GroundRow(1, 100), GroundRow(2, 100)>>,
      <<GroundRow(1, 104), GroundRow(2, 96)>>,
      <<GroundRow(1, 100), GroundRow(1, 100), GroundRow(2, 100)>>,
      <<GroundRow(1, 96), GroundRow(1, 104), GroundRow(2, 100)>>,
      <<GroundRow(1, 110), GroundRow(2, 110)>> }
MetaTables == { <<>>, <<1>>, <<2, 1>> }

\* merge_all on a catalog folder as the stages before it may have left it.
InitMerge ==
    /\ DriverIdle
    /\ CalcIdle
    /\ \E f \in {AbsentTable} \cup {TableOf(t) : t \in TablesOver(FanRows, MaxRows)},
          b \in {AbsentTable, TableOf(BlotchTable)} :
          folder = [k \in Kinds |-> IF k = "fans" THEN f ELSE b]
    /\ meta \in MetaTables
    /\ ground \in GroundTables
    /\ mpc = "start"
    /\ tab = NoFrames
    /\ got = NothingGot
    /\ out = NothingWritten
    /\ merr = "none"
    /\ log = <<>>
    /\ cols = NoColumns

NextMerge ==
    \/ ReadFiles
    \/ MergeFnotch
    \/ MergeMeta
    \/ WriteTileCoords
    \/ MergeCampt
    \/ WriteFans
    \/ WriteBlotches

SpecMerge == InitMerge /\ [][NextMerge]_vars

\* merge_fnotch_results on tables that the fnotching may have left: the same
\* marking in several rows, with vote ratios 0.2, 0.4 and 0.6.
FnotchRows ==
    CandidateRows({"F000001", "F000002"}, {Num(2), Num(4), Num(6)},
                  {<<"t1", 1, 100>>, <<"t1", 1, 104>>, <<"t2", 2, 100>>,
                   <<"t2", 2, 104>>})
FnotchBlotchTables ==
    { <<>>,
      << BlotchTable[1], [BlotchTable[1] EXCEPT !.vote_ratio = Num(6)],
         [BlotchTable[1] EXCEPT !.vote_ratio = Num(3)] >> }

InitFnotch ==
    /\ DriverIdle
    /\ CalcIdle
    /\ \E t \in TablesOver(FnotchRows, MaxRows + 1), b \in FnotchBlotchTables :
          /\ folder = [k \in Kinds |-> IF k = "fans" THEN TableOf(t) ELSE TableOf(b)]
          /\ tab = [k \in Kinds |-> IF k = "fans" THEN t ELSE b]
    /\ meta = <<1, 2>>
    /\ ground = <<>>
    /\ mpc = "read"
    /\ got = [k \in Kinds |-> k]
    /\ out = NothingWritten
    /\ merr = "none"
    /\ log = <<>>
    /\ cols = [k \in Kinds |-> candidate_columns(k)]

NextFnotch == MergeFnotch

SpecFnotch == InitFnotch /\ [][NextFnotch]_vars

\* merge_fnotch_results on tables whose rows are taken in every order: two
\* markings, three vote ratios, and two places, so that the rows of a marking
\* agree in image_id and obsid in some tables and differ in others.
ReorderRows ==
    CandidateRows({"F000001", "F000002"}, {Num(2), Num(4), Num(6)},
                  {<<"t1", 1, 100>>, <<"t2", 2, 104>>})

InitReorder ==
    /\ DriverIdle
    /\ CalcIdle
    /\ \E t \in TablesOver(ReorderRows, MaxRows + 1), b \in FnotchBlotchTables :
          /\ folder = [k \in Kinds |-> IF k = "fans" THEN TableOf(t) ELSE TableOf(b)]
          /\ tab = [k \in Kinds |-> IF k = "fans" THEN t ELSE b]
    /\ meta = <<1, 2>>
    /\ ground = <<>>
    /\ mpc = "read"
    /\ got = [k \in Kinds |-> k]
    /\ out = NothingWritten
    /\ merr = "none"
    /\ log = <<>>
    /\ cols = [k \in Kinds |-> candidate_columns(k)]

SpecReorder == InitReorder /\ [][NextFnotch]_vars

\* ------------------------------------------------ reduction: the angles
\* The angle column holds binary floating-point numbers.  The model keeps the
\* format's structure with a significand of SignificandBits bits (float64 has
\* 53): a value is a whole number of degrees with at most that many
\* significant bits, and a result that is not such a value is rounded to the
\* nearest one, a tie to the even significand.
SignificandBits == 6
Magnitude(v) == IF v < 0 THEN -v ELSE v
RECURSIVE BitLength(_)
BitLength(n) == IF n = 0 THEN 0 ELSE 1 + BitLength(n \div 2)
RECURSIVE Pow2(_)
Pow2(k) == IF k <= 0 THEN 1 ELSE 2 * Pow2(k - 1)
Ulp(n) == Pow2(BitLength(n) - SignificandBits)
IsFloat(v) == Magnitude(v) % Ulp(Magnitude(v)) = 0
RoundFloat(n) ==
    LET u == Ulp(n)
        q == n \div u
        r == n % u
    IN IF 2 * r < u THEN q * u
       ELSE IF 2 * r > u THEN (q + 1) * u
       ELSE IF q % 2 = 0 THEN q * u ELSE (q + 1) * u

\* Series % y for a positive y: the C fmod, exact and with the sign of x, and
\* the divisor added to a negative remainder; the sum is rounded.
fmod(x, y) == IF x >= 0 THEN x % y ELSE -((-x) % y)
float_mod(x, y) ==
    LET mod == fmod(x, y)
    IN IF mod < 0 THEN RoundFloat(mod + y) ELSE mod

\* df.loc[df.marking == 'blotch', 'angle'] %= 180
convert_ellipse_angles(df) ==
    [i \in DOMAIN df |->
        IF df[i].marking = "blotch"
        THEN [df[i] EXCEPT !.angle = float_mod(@, 180)]
        ELSE df[i]]
\* df.loc[df.marking == 'fan', 'angle'] %= 360
normalize_fan_angles(df) ==
    [i \in DOMAIN df |->
        IF df[i].marking = "fan"
        THEN [df[i] EXCEPT !.angle = float_mod(@, 360)]
        ELSE df[i]]

ConvertEllipseAngles ==
    /\ rpc = "filtered"
    /\ frame' = convert_ellipse_angles(frame)
    /\ rpc' = "ellipse"
    /\ UNCHANGED <<given, data, length, prod, mrg>>

NormalizeFanAngles ==
    /\ rpc = "ellipse"
    /\ frame' = normalize_fan_angles(frame)
    /\ rpc' = "normalized"
    /\ UNCHANGED <<given, data, length, prod, mrg>>

\* The frames that reach the angle clean-up: markings of every type, with
\* angles as the volunteers' tools left them, of either sign and beyond a
\* full turn.
Markings == {"blotch", "fan", "interesting"}
AngleInputs == {v \in -720..720 : IsFloat(v)}
MarkingRows == [marking : Markings, angle : AngleInputs]
SecondRows ==
    { [marking |-> "fan", angle |-> -192], [marking |-> "blotch", angle |-> 368] }
Frames ==
    {<<r>> : r \in MarkingRows} \cup {<<r, q>> : r \in MarkingRows, q \in SecondRows}

InitAngles ==
    /\ DriverIdle
    /\ MergeIdle
    /\ frame \in Frames
    /\ given = frame
    /\ rpc = "filtered"
    /\ data = NoData
    /\ length = Unset

NextAngles ==
    \/ ConvertEllipseAngles
    \/ NormalizeFanAngles

SpecAngles == InitAngles /\ [][NextAngles]_vars

\* ------------------------------------------------ markings: the fan arms
\* Lengths are whole hundredths of a pixel, angles in radians and the values
\* of sin and cos whole ten-thousandths; a quotient is rounded to the nearest
\* whole number.  spread is in whole degrees.
TrigScale == 10000
PI == 31416
Div(a, b) == (a + (b \div 2)) \div b

\* math.radians of a number of degrees given as a fraction.
radians(deg) == Div(deg.n * PI, deg.d * 180)

\* math.sin and math.cos: the power series on [0, pi/2], the other arguments
\* brought there by the period and the symmetries.
RECURSIVE sin_series(_, _, _)
sin_series(x, term, k) ==
    IF term = 0 THEN 0
    ELSE term - sin_series(x,
                    ((((term * x) \div TrigScale) * x) \div TrigScale)
                        \div ((2 * k) * (2 * k + 1)),
                    k + 1)
sin(x) ==
    LET r == x % (2 * PI)
    IN IF 2 * r <= PI THEN sin_series(r, r, 1)
       ELSE IF r <= PI THEN sin_series(PI - r, PI - r, 1)
       ELSE IF 2 * r <= 3 * PI THEN -sin_series(r - PI, r - PI, 1)
       ELSE -sin_series(2 * PI - r, 2 * PI - r, 1)
cos(x) == sin(x + Div(PI, 2))

\* P4_Fan.get_arm_length
get_arm_length_times(row) ==
    LET half == radians(Frac(row.spread, 2))
    IN Div(row.distance * (cos(half) + sin(half)), TrigScale)
get_arm_length(row) ==
    LET half == radians(Frac(row.spread, 2))
    IN Div(row.distance * TrigScale, cos(half) + sin(half))

\* P4_Fan.__init__: the row is kept and the arm length computed from it.
P4_Fan(json_row) ==
    /\ data' = json_row
    /\ length' = get_arm_length(json_row)
    /\ UNCHANGED <<frame, given, rpc, prod, mrg>>

\* Clustered and volunteered fans: a distance of 10 to 800 pixels and an
\* opening angle of 0 to 180 degrees.
Distances == {1000, 2500, 5000, 12345, 20000, 40000, 65432, 80000}
Spreads == {5 * k : k \in 0..36} \cup {1, 33, 179}
FanData == [distance : Distances, spread : Spreads]

InitFan ==
    /\ DriverIdle
    /\ MergeIdle
    /\ CalcIdle

NextFan == \E json_row \in FanData : P4_Fan(json_row)

SpecFan == InitFan /\ [][NextFan]_vars

\* ================================================================ claims
\* The state right after a check_for_todo call, and the overwrite it ran with.
IsCheck == called[1] = "check_for_todo"
RanWithOverwrite == called[2] = "True" \/ (called[2] = "None" /\ overwrite)
Known == Range(obsids)
Existing == {o \in Obs : exists[o]}
Ascending(s) == \A i, j \in 1..Len(s) : i < j => s[i] < s[j]
PositionIn(s, x) == CHOOSE i \in 1..Len(s) : s[i] = x

\* C1: after check_for_todo with overwrite=false, todo holds exactly the
\* known observation ids whose output directory does not exist, and the call
\* raised nothing.
C1_TodoIsTheMissingOutputs ==
    (IsCheck /\ ~RanWithOverwrite) =>
        /\ todo # NoTodo
        /\ Range(todo) = Known \ Existing
        /\ error = "none"

C1_Witness ==
    /\ IsCheck /\ ~RanWithOverwrite
    /\ \E a, b \in Known : a # b /\ exists[a] /\ ~exists[b] /\ todo = <<b>>

\* C2: after check_for_todo with overwrite=true, todo is all known ids
\* whatever exists; an explicit argument decides, and the instance's flag
\* only when the argument is None.
C2_OverwriteTakesAll ==
    IsCheck =>
        /\ called[2] = "True" => todo = obsids
        /\ called[2] = "False" => Range(todo) = Known \ Existing
        /\ (called[2] = "None" /\ overwrite) => todo = obsids
        /\ (called[2] = "None" /\ ~overwrite) => Range(todo) = Known \ Existing

C2_Witness ==
    /\ IsCheck /\ called[2] = "True" /\ ~overwrite
    /\ \E a, b \in Known : exists[a] /\ ~exists[b]
    /\ todo = obsids

\* C3 as claimed: after check_for_todo the todo list is in ascending order of
\* observation id, for every order of the input list.
C3_TodoAscending == IsCheck => Ascending(todo)

\* C3 as amended: after check_for_todo the todo list is the kept ids in the
\* order of the input list (so it is ascending when the input list is), and
\* it is a function of the ids, the overwrite flag and the existing
\* directories alone.
C3_TodoInInputOrder ==
    IsCheck =>
        /\ Range(todo) \subseteq Known
        /\ \A i, j \in 1..Len(todo) :
              i < j => PositionIn(obsids, todo[i]) < PositionIn(obsids, todo[j])
        /\ Ascending(obsids) => Ascending(todo)
        /\ todo = SelectSeq(obsids,
                            LAMBDA o : RanWithOverwrite \/ ~exists[o])

C3_Witness == IsCheck /\ Len(todo) = 2 /\ todo[1] > todo[2]

\* C4: a check_for_todo call leaves the output filesystem as it was, for
\* either overwrite.
C4_CheckLeavesFilesAlone ==
    [][called'[1] = "check_for_todo" =>
          UNCHANGED <<exists, files, fnotched>>]_vars

C4_Witness ==
    /\ IsCheck /\ RanWithOverwrite
    /\ \E a, b \in Known : exists[a] /\ fnotched[a] /\ ~exists[b]

\* C5: under overwrite=false the todo list only shrinks from one check of a
\* manager to its next: output directories stay, an observation whose
\* directory exists is not in todo, and todo is empty once every known
\* observation has its directory.
C5_TodoOnlyShrinks ==
    [][/\ \A o \in Obs : exists[o] => exists'[o]
       /\ (called'[1] = "check_for_todo"
           /\ ~(called'[2] = "True" \/ (called'[2] = "None" /\ overwrite'))) =>
             /\ Range(todo') \cap {o \in Obs : exists'[o]} = {}
             /\ todo # NoTodo => Range(todo') \subseteq Range(todo)
             /\ (\A o \in Range(obsids') : exists'[o]) => todo' = <<>>]_vars

C5_Witness ==
    /\ IsCheck /\ ~RanWithOverwrite
    /\ Len(obsids) = 2
    /\ \A o \in Known : exists[o]
    /\ todo = <<>>

\* C6: after a crashed batch, check_for_todo with overwrite=false gives
\* exactly the observations whose clustering, id assignment and fnotching did
\* not all complete.
IdsAssigned(o) ==
    \A t \in TileSet, k \in Kinds :
        \A i \in 1..Len(files[o][t][k].ids) : files[o][t][k].ids[i] # NoId
Complete(o) == exists[o] /\ IdsAssigned(o) /\ fnotched[o]

C6_TodoIsTheOutstandingUnits ==
    (IsCheck /\ ~RanWithOverwrite) =>
        Range(todo) = {o \in Known : ~Complete(o)}

\* Identifiers compared symbol by symbol in the order of the alphabet.
Rank(c) == CHOOSE i \in 1..Len(Alphabet) : Alphabet[i] = c
AlphabetSet == Range(Alphabet)
LexLess(a, b) ==
    /\ Len(a) = Len(b)
    /\ a[1] = b[1]
    /\ \E i \in 2..Len(a) :
          /\ \A j \in 2..(i - 1) : a[j] = b[j]
          /\ a[i] \in AlphabetSet /\ b[i] \in AlphabetSet
          /\ Rank(a[i]) < Rank(b[i])
Prefix(k) == IF k = "fans" THEN "F" ELSE "B"
Gen(k) == IF k = "fans" THEN fan_id ELSE blotch_id
LastId(k) == <<Prefix(k)>> \o [i \in 1..IdLen |-> Alphabet[Len(Alphabet)]]

\* C7: the identifiers a generator returns are strictly increasing in
\* lexicographic order, so none is returned twice.
C7_IdsStrictlyIncrease ==
    \A k \in Kinds :
        \A i, j \in 1..Len(emitted[k]) :
            i < j => LexLess(emitted[k][i], emitted[k][j])

C7_Witness ==
    \E i \in 1..(Len(emitted["fans"]) - 1) :
        /\ emitted["fans"][i][IdLen + 1] = Alphabet[Len(Alphabet)]
        /\ emitted["fans"][i + 1][IdLen + 1] = Alphabet[1]
        /\ emitted["fans"][i][IdLen] = Alphabet[Len(Alphabet)]

\* C8: once the last identifier of a kind (all f) is out, the next request
\* raises StopIteration, which ends the driver; nothing is returned after the
\* last identifier, and no identifier has more than six symbols.
C8_ExhaustionRaises ==
    /\ \A k \in Kinds :
          /\ attempts[k] >= Len(emitted[k])
          /\ attempts[k] > Len(emitted[k]) =>
                Gen(k).stopped /\ error = "StopIteration" /\ pc = "crashed"
          /\ Gen(k).stopped =>
                emitted[k] # <<>> /\ emitted[k][Len(emitted[k])] = LastId(k)
          /\ \A i \in 1..Len(emitted[k]) :
                /\ Len(emitted[k][i]) = IdLen + 1
                /\ emitted[k][i] = LastId(k) => i = Len(emitted[k])
    /\ error = "StopIteration" =>
          \E k \in Kinds : attempts[k] > Len(emitted[k])

C8_Witness ==
    /\ error = "StopIteration"
    /\ attempts["fans"] = Len(emitted["fans"]) + 1
    /\ Len(emitted["fans"]) >= 1

\* C9: every identifier returned or written is the kind's letter followed by
\* exactly six symbols of the alphabet; no fan identifier is a blotch
\* identifier.
WellFormed(id, k) ==
    /\ Len(id) = IdLen + 1
    /\ id[1] = Prefix(k)
    /\ \A i \in 2..(IdLen + 1) : id[i] \in AlphabetSet

C9_IdFormat ==
    /\ \A k \in Kinds : \A i \in 1..Len(emitted[k]) : WellFormed(emitted[k][i], k)
    /\ \A k \in Kinds, o \in Obs, t \in TileSet :
          \A i \in 1..Len(files[o][t][k].ids) :
              files[o][t][k].ids[i] # NoId => WellFormed(files[o][t][k].ids[i], k)
    /\ Range(emitted["fans"]) \cap Range(emitted["blotches"]) = {}

C9_Witness ==
    /\ Len(emitted["fans"]) >= 2
    /\ Len(emitted["blotches"]) >= 2
    /\ \E o \in Obs, t \in TileSet :
          /\ Len(files[o][t]["blotches"].ids) >= 1
          /\ files[o][t]["blotches"].ids[1] # NoId

\* C10: no two distinct rows of one kind in the per-observation outputs of a
\* catalog carry the same marking_id, after any sequence of launches.
Rows(k) ==
    {<<o, t, i>> \in Obs \X TileSet \X (1..MaxRows) :
        i <= Len(files[o][t][k].ids) /\ files[o][t][k].ids[i] # NoId}
IdOfRow(k, r) == files[r[1]][r[2]][k].ids[r[3]]

C10_MarkingIdsUnique ==
    \A k \in Kinds :
        \A r1, r2 \in Rows(k) : r1 # r2 => IdOfRow(k, r1) # IdOfRow(k, r2)

\* A step that writes a marking_id into a row; a step that starts a parallel
\* task; the id pass of this launch has begun (its generators exist).
AssignsId ==
    /\ files' # files
    /\ \E o \in Obs, t \in TileSet, k \in Kinds :
          \E i \in 1..Len(files'[o][t][k].ids) :
              /\ files'[o][t][k].ids[i] # NoId
              /\ \/ i > Len(files[o][t][k].ids)
                 \/ files[o][t][k].ids[i] # files'[o][t][k].ids[i]
Started(o) == unit' # unit /\ unit'[o] = "running" /\ unit[o] # "running"
PassBegun == fan_id # NoGen

TaskStep(o) == unit'[o] # unit[o] /\ unit'[o] \in {"running", "done"}
Advanced(g, h) == h # g /\ h # NoGen

C12_GeneratorsNeverShared ==
    [][/\ (\E o \in Obs : TaskStep(o)) =>
             UNCHANGED <<fan_id, blotch_id, emitted, attempts>>
       /\ (Advanced(fan_id, fan_id') \/ Advanced(blotch_id, blotch_id')
           \/ \E k \in Kinds : attempts'[k] > attempts[k]) =>
             /\ \A o \in Obs : unit[o] \notin {"pending", "running"}
             /\ unit' = NoUnits
             /\ pc' \in {"idpass", "crashed"}]_vars

C12_Witness ==
    /\ pc = "fnotching"
    /\ \A o \in Obs : unit[o] = "running"
    /\ fan_id # NoGen /\ blotch_id # NoGen
    /\ attempts["fans"] >= 2 /\ attempts["blotches"] >= 2

\* The n-th identifier of a kind, counted from 0: n written with IdLen
\* symbols of the alphabet.
NthId(k, n) ==
    <<Prefix(k)>> \o
    [i \in 1..IdLen |->
        Alphabet[((n \div (Len(Alphabet) ^ (IdLen - i))) % Len(Alphabet)) + 1]]
\* The rows of kind k the clustering writes for tile t of observation o, and
\* those that come before row i of tile j of the p-th observation of todo.
RowCount(o, t, k) == Len(cluster_image_name(db, o)[t][k].ids)
RowsBefore(k, p, j, i) ==
    Cardinality({x \in (1..Len(todo)) \X (1..Len(TileSeq)) \X (1..MaxRows) :
        /\ x[3] <= RowCount(todo[x[1]], TileSeq[x[2]], k)
        /\ \/ x[1] < p
           \/ x[1] = p /\ x[2] < j
           \/ x[1] = p /\ x[2] = j /\ x[3] < i})

\* C13: the marking_id of a row is fixed by the todo list and the clustering
\* output alone: it is the identifier whose number is the count of rows of
\* its kind before it in todo order, then tile order, then row order, in
\* whatever order the clustering tasks of the batch ended.
C13_IdsReproducible ==
    (todo # NoTodo /\ PassBegun /\ pc \in {"idpass", "fnotching", "post"}) =>
        \A p \in 1..Len(todo), j \in 1..Len(TileSeq), k \in Kinds :
            LET file == files[todo[p]][TileSeq[j]][k]
            IN /\ Len(file.ids) = RowCount(todo[p], TileSeq[j], k)
               /\ \A i \in 1..Len(file.ids) :
                     /\ file.ids[i] # NoId =>
                           file.ids[i] = NthId(k, RowsBefore(k, p, j, i))
                     /\ (pc # "idpass" \/ idq = <<>>) => file.ids[i] # NoId

C13_Witness ==
    /\ pc = "idpass" /\ idq = <<>>
    /\ Len(todo) = 2
    /\ finished = <<todo[2], todo[1]>>
    /\ \E t \in TileSet, k \in Kinds :
          \E i \in 1..Len(files[todo[2]][t][k].ids) :
              files[todo[2]][t][k].ids[i] = NthId(k, 3)

\* The table merge_fnotch_results was given and the one it returned.
Deduped == mpc = "deduped"
Given(k) == folder[k].rows
Returned(k) == tab[k]
IdsOf(df) == {df[i].marking_id : i \in 1..Len(df)}
RowsOf(df, m) == {i \in 1..Len(df) : df[i].marking_id = m}

\* C14: merge_fnotch_results returns for each kind exactly one row per
\* marking_id of its input: the ids returned are the ids given, none twice,
\* so the rows returned are as many as the distinct ids given and at most as
\* many as the rows given.
C14_OneRowPerMarkingId ==
    Deduped =>
        \A k \in Kinds :
            /\ IdsOf(Returned(k)) = IdsOf(Given(k))
            /\ \A m \in IdsOf(Given(k)) : Cardinality(RowsOf(Returned(k), m)) = 1
            /\ Len(Returned(k)) = Cardinality(IdsOf(Given(k)))
            /\ Len(Returned(k)) <= Len(Given(k))

C14_Witness ==
    /\ Deduped
    /\ Len(Given("fans")) = MaxRows + 1
    /\ Len(Returned("fans")) = 2
    /\ Len(Given("blotches")) = 3 /\ Len(Returned("blotches")) = 1

\* The sum of the numerators of whole numbers.
RECURSIVE SumN(_)
SumN(vals) == IF vals = <<>> THEN 0 ELSE Head(vals).n + SumN(Tail(vals))

\* C15: in the table returned, every numeric column of a marking_id is the
\* unweighted arithmetic mean of the column over the rows given with that
\* marking_id (over those that have a value, NaN when none has): rows with
\* vote_ratio 0.2, 0.6, 0.4 give 0.4, and a single row keeps its values.
C15_NumericColumnsAreMeans ==
    Deduped =>
        \A k \in Kinds :
            \A j \in 1..Len(Returned(k)) :
                \A c \in NumericColumns :
                    LET group == group_of(Given(k), Returned(k)[j].marking_id)
                        values == SelectSeq(column(group, c), LAMBDA v : v # NaN)
                        mean == Returned(k)[j][c]
                    IN /\ values = <<>> => mean = NaN
                       /\ values # <<>> =>
                             /\ mean.d > 0
                             /\ mean.n * Len(values) = SumN(values) * mean.d
                       /\ Len(group) = 1 => mean = group[1][c]

C15_Witness ==
    /\ Deduped
    /\ column(Given("fans"), "vote_ratio") = <<Num(2), Num(6), Num(4)>>
    /\ IdsOf(Given("fans")) = {"F000001"}
    /\ column(Returned("fans"), "vote_ratio") = <<Num(4)>>
    /\ column(Given("fans"), "image_x") = <<Num(100), Num(104), Num(104)>>

\* C16: in the table returned, the image_id and obsid of a marking_id are
\* those of a row given with that marking_id (the first one), so they are
\* the ones all its rows have when these agree.
C16_IdentityFromAnInputRow ==
    Deduped =>
        \A k \in Kinds :
            \A j \in 1..Len(Returned(k)) :
                LET r == Returned(k)[j]
                    same == RowsOf(Given(k), r.marking_id)
                    first == CHOOSE i \in same : \A i2 \in same : i <= i2
                IN /\ same # {}
                   /\ r.image_id = Given(k)[first].image_id
                   /\ r.obsid = Given(k)[first].obsid
                   /\ \A i \in same :
                         (\A i2 \in same :
                             /\ Given(k)[i2].image_id = Given(k)[i].image_id
                             /\ Given(k)[i2].obsid = Given(k)[i].obsid) =>
                         /\ r.image_id = Given(k)[i].image_id
                         /\ r.obsid = Given(k)[i].obsid

C16_Witness ==
    /\ Deduped
    /\ Len(Given("fans")) = 3
    /\ Given("fans")[1].marking_id = "F000002"
    /\ Given("fans")[2].marking_id = "F000001"
    /\ Given("fans")[3].marking_id = "F000002"
    /\ \A i \in {1, 3} : Given("fans")[i].image_id = "t2" /\ Given("fans")[i].obsid = 2
    /\ Given("fans")[2].image_id = "t1"
    /\ Returned("fans")[2].image_id = "t2" /\ Returned("fans")[2].obsid = 2
    /\ Returned("fans")[1].image_id = "t1" /\ Returned("fans")[1].obsid = 1

\* The step of merge_all that writes the final catalog of kind k, and a row
\* written that is the row after the joins but for its vote_ratio.
Writes(k) == ~out[k].present /\ out'[k].present
FilledFrom(after, before) ==
    /\ after.vote_ratio = IF before.vote_ratio = NaN THEN VoteRatioOne
                          ELSE before.vote_ratio
    /\ after = [before EXCEPT !.vote_ratio = after.vote_ratio]

\* C17: a final catalog written by merge_all has no row with a missing
\* vote_ratio: it holds the rows left by the joins, in their order, a missing
\* vote_ratio replaced by 1 and a present one kept.
C17_MissingVoteRatioIsOne ==
    [][\A k \in Kinds :
          /\ Writes(k) =>
                /\ Len(out'[k].rows) = Len(tab[k])
                /\ \A i \in 1..Len(tab[k]) : FilledFrom(out'[k].rows[i], tab[k][i])
          /\ \A i \in 1..Len(out'[k].rows) : out'[k].rows[i].vote_ratio # NaN]_vars

C17_Witness ==
    /\ mpc = "done"
    /\ \E i, j \in 1..Len(out["fans"].rows) :
          /\ out["fans"].rows[i].vote_ratio = VoteRatioOne
          /\ out["fans"].rows[j].vote_ratio = Num(4)
          /\ \E r \in 1..Len(folder["fans"].rows) :
                /\ folder["fans"].rows[r].marking_id = out["fans"].rows[i].marking_id
                /\ folder["fans"].rows[r].vote_ratio = NaN
    /\ Len(out["blotches"].rows) = 1
    /\ out["blotches"].rows[1].vote_ratio = VoteRatioOne

\* C18: merge_all does not shrink a catalog in silence: when it ends
\* normally and a marking_id of a candidate table is in no row of the final
\* catalog, the loss has been reported.
DiscrepancyReports == {"warning: rows dropped", "error: rows dropped"}
C18_NoSilentShrinkage ==
    mpc = "done" =>
        \A k \in Kinds :
            IdsOf(folder[k].rows) \subseteq IdsOf(out[k].rows)
            \/ \E i \in 1..Len(log) : log[i] \in DiscrepancyReports

\* C19: the coordinate join keeps a candidate row exactly when a ground row
\* has its obsid and its image_x and image_y after BOTH are rounded to 7
\* digits, whichever side has the eighth digit.
MatchRounded(row, c) ==
    /\ c.obsid = row.obsid
    /\ Round7(c.image_x) = Round7(row.image_x)
    /\ Round7(c.image_y) = Round7(row.image_y)
C19_JoinRoundsBothSides ==
    [][(mpc = "tile_coords" /\ mpc' = "campt") =>
          \A k \in Kinds :
              \A i \in 1..Len(tab[k]) :
                  (\E j \in 1..Len(ground) : MatchRounded(tab[k][i], ground[j]))
                  <=> tab[k][i].marking_id \in IdsOf(tab'[k])]_vars

\* C20: when no file of the catalog folder matches a kind's pattern, looking
\* the file up fails with a "catalog source not found" error and never
\* returns None.
C20_MissingSourceRaises ==
    \A k \in Kinds :
        (got[k] # "unread" /\ ~folder[k].present) =>
            got[k] # "None" /\ merr = "CatalogSourceNotFound"

\* C21: a join of merge_all (the metadata join or the coordinate join) that
\* leaves no row of a candidate table that had rows raises an error, so no
\* final catalog is written from it.
JoinStep == mpc \in {"deduped", "tile_coords"} /\ mpc' # mpc
C21_EmptyJoinRaises ==
    [][(JoinStep /\ \E k \in Kinds : tab[k] # <<>> /\ tab'[k] = <<>>) =>
          (mpc' = "raised" /\ merr' # "none")]_vars

\* C22: the published blotch columns are the published fan columns other
\* than distance, spread and version, with radius_1 and radius_2 added, the
\* columns the two have in common in the same relative order; a final catalog
\* is written with exactly its kind's published columns.
FanOnly == {"distance", "spread", "version"}
BlotchOnly == {"radius_1", "radius_2"}
published(k) ==
    IF k = "fans" THEN FAN_COLUMNS_AS_PUBLISHED ELSE BLOTCH_COLUMNS_AS_PUBLISHED
WrittenAsPublished ==
    \A k \in Kinds : out[k].present => out[k].columns = published(k)
C22_BlotchSchemaFromFanSchema ==
    /\ Without(BLOTCH_COLUMNS_AS_PUBLISHED, BlotchOnly)
          = Without(FAN_COLUMNS_AS_PUBLISHED, FanOnly)
    /\ BlotchOnly \subseteq Range(BLOTCH_COLUMNS_AS_PUBLISHED)
    /\ WrittenAsPublished

\* C22 as stated: version counted among the columns the blotch schema takes
\* over from the fan schema.
C22_BlotchSchemaKeepsVersion ==
    /\ Without(BLOTCH_COLUMNS_AS_PUBLISHED, BlotchOnly)
          = Without(FAN_COLUMNS_AS_PUBLISHED, {"distance", "spread"})
    /\ BlotchOnly \subseteq Range(BLOTCH_COLUMNS_AS_PUBLISHED)
    /\ WrittenAsPublished

C22_Witness ==
    /\ mpc = "done"
    /\ out["fans"].present /\ out["blotches"].present
    /\ Has(out["fans"].columns, "version")
    /\ ~Has(out["blotches"].columns, "version")
    /\ Has(out["blotches"].columns, "radius_1")
    /\ Len(out["blotches"].rows) = 1

\* C23: after the angle clean-up every blotch angle is in [0, 180) and every
\* fan angle is in [0, 360), whatever the angle was before (negative, or
\* beyond a full turn), and it is the angle it was, taken modulo 180 (blotch)
\* or 360 (fan), to the precision of the number format.
Congruent(a, b, m) ==
    \E k \in -8..8 : 2 * Magnitude(a - b - k * m) <= Ulp(Magnitude(a))
Modulus(marking) == IF marking = "blotch" THEN 180 ELSE 360
C23_AnglesInRange ==
    rpc = "normalized" =>
        \A i \in 1..Len(frame) :
            frame[i].marking \in {"blotch", "fan"} =>
                /\ frame[i].angle >= 0
                /\ frame[i].angle < Modulus(frame[i].marking)
                /\ Congruent(frame[i].angle, given[i].angle,
                             Modulus(frame[i].marking))

\* C24: the arm length of a fan is its distance divided by
\* cos(spread/2) + sin(spread/2), the half spread taken in radians, and the
\* distance is recovered from the arm length and the spread: length times
\* cos(spread/2) + sin(spread/2) is the distance to within one unit of the
\* last place.  With the half spread in radians the divisor is 1 at a spread
\* of 0 and of 180 degrees and the square root of 2 at 90 degrees, and lies
\* between the two.
SpreadFactor == cos(radians(Frac(data.spread, 2))) + sin(radians(Frac(data.spread, 2)))
Reconstructed == Div(length * SpreadFactor, TrigScale)
Near(a, b) == 1000 * Magnitude(a - b) <= b
C24_ArmLengthInvertible ==
    length # Unset =>
        /\ Magnitude(Reconstructed - data.distance) <= 1
        /\ data.spread \in {0, 180} => Near(length, data.distance)
        /\ data.spread = 90 => Near(Div(length * 14142, TrigScale), data.distance)
        /\ length <= data.distance + 1
        /\ Div(length * 14143, TrigScale) >= data.distance - 1

C24_Witness ==
    /\ length # Unset
    /\ data.spread = 90
    /\ data.distance = 80000
    /\ length < data.distance
    /\ Reconstructed = data.distance

\* C25: a task of a parallel batch that raises ends the whole launch with its
\* error: from then on the launch assigns no marking id, starts no task,
\* writes no file and runs no merge; nothing happens until a new manager is
\* made.  After a failed clustering task no generator was ever created.
TaskErrors == {"cluster_obsid", "fnotch_obsid"}
C25_UnitFailureAbortsTheLaunch ==
    [][(error \in TaskErrors) =>
          ( /\ pc = "crashed"
            /\ fan_id = NoGen /\ blotch_id = NoGen
            /\ unit = NoUnits
            /\ files' = files /\ fnotched' = fnotched /\ exists' = exists
            /\ unit' = NoUnits
            /\ fan_id' = NoGen /\ blotch_id' = NoGen
            /\ mpc' = "idle" /\ out' = NothingWritten
            /\ pc' = "idle" /\ error' = "none" )]_vars

C25_Witness ==
    /\ error = "fnotch_obsid"
    /\ pc = "crashed"
    /\ \E o \in Range(todo) : ~fnotched[o] /\ files[o] # NoFiles
    /\ mpc = "idle"

\* C26: merge_all goes through its stages in one order, each stage working
\* on what the stage before it left: the candidate tables are read and
\* deduplicated, joined with the metadata, the tile coordinates are written,
\* the tables are joined with the ground coordinates, and then each catalog
\* has its missing vote_ratio filled, is renamed and is written, the fans
\* first.  A final catalog is written only after both joins, from the frame
\* the coordinate join made.
StageOrder ==
    << "start", "read", "deduped", "meta", "tile_coords", "campt",
       "fans_written", "done" >>
NextStage(a, b) ==
    \E i \in 1..(Len(StageOrder) - 1) : StageOrder[i] = a /\ StageOrder[i + 1] = b
MetaJoined(k) == Has(cols[k], "SOLAR_LONGITUDE") \/ Has(cols[k], "l_s")
CoordsJoined(k) ==
    Has(cols[k], "PositiveEast360Longitude") \/ Has(cols[k], "Longitude")
Renamed(k) == Has(cols[k], "tile_id") /\ ~Has(cols[k], "image_id")
OneRowPerId(t) ==
    \A i, j \in 1..Len(t) : t[i].marking_id = t[j].marking_id => i = j
InStageOrder ==
    /\ \A k \in Kinds :
          /\ CoordsJoined(k) => MetaJoined(k) /\ out.tile_coords
          /\ Renamed(k) => CoordsJoined(k)
          /\ out[k].present =>
                /\ Renamed(k)
                /\ out[k].rows = tab[k]
                /\ \A i \in 1..Len(tab[k]) : tab[k][i].vote_ratio # NaN
    /\ out.tile_coords => \A k \in Kinds : MetaJoined(k)
    /\ out["blotches"].present => out["fans"].present
GenOf(k) == IF k = "fans" THEN fan_id ELSE blotch_id
IdPassStep == pc = "idpass" /\ pc' = "idpass" /\ idq' # idq
OneIdPerRow(o, t, k) ==
    LET before == files[o][t][k]
        after == files'[o][t][k]
        n == Len(emitted[k])
    IN IF ~before.present
       THEN /\ after = before
            /\ GenOf(k)' = GenOf(k)
       ELSE /\ after.present
            /\ Len(after.ids) = Len(before.ids)
            /\ \A i \in 1..Len(after.ids) : after.ids[i] = NthId(k, n + i - 1)
            /\ ~GenOf(k)'.stopped
            /\ gen_yield(GenOf(k)') = NthId(k, n + Len(before.ids))
C27_OneIdPerRowNoGaps ==
    [][IdPassStep =>
          (/\ \A k \in Kinds : OneIdPerRow(Head(idq)[1], Head(idq)[2], k)
           /\ \A o \in Obs, t \in TileSet :
                 <<o, t>> # Head(idq) => files'[o][t] = files[o][t]
           /\ \A k \in Kinds :
                 gen_yield(GenOf(k)) = NthId(k, Len(emitted[k])))]_vars

C27_Witness ==
    /\ pc = "idpass"
    /\ idq = <<>>
    /\ \E o \in Range(todo), t \in TileSet :
          /\ ~files[o][t]["fans"].present
          /\ files[o][t]["blotches"].present
          /\ Len(files[o][t]["blotches"].ids) = 2
          /\ files[o][t]["blotches"].ids[2] = gen_yield(
                 product_advance(product_advance(blotch_id_generator, IdLen), IdLen))
    /\ \E o \in Range(todo), t \in TileSet :
          /\ files[o][t]["fans"].present
          /\ files[o][t]["fans"].ids # <<>>
          /\ files[o][t]["fans"].ids[1] = gen_yield(fan_id_generator)

\* C28: a final catalog written by merge_all has each marking_id in at most
\* one row: neither join multiplies a row, so a catalog has at most as many
\* rows as its candidate table has distinct marking_ids.
C28_OneRowPerIdInCatalogs ==
    \A k \in Kinds :
        out[k].present =>
            /\ OneRowPerId(out[k].rows)
            /\ Len(out[k].rows) <= Cardinality(IdsOf(folder[k].rows))

\* C29: a launch whose todo list is empty runs no clustering, creates no
\* generator, rewrites no file of a tile and runs no fnotching, and goes
\* straight to the stages after the batches; those stages (create_roi_file,
\* the mosaics, the tile and marking coordinates, the metadata, merge_all)
\* run in every launch that gets there, over all the manager's observations.
\* With a todo list that is not empty, clustering, the id pass and fnotching
\* touch the observations of todo only.
PerTileUnchanged == files' = files /\ fnotched' = fnotched /\ exists' = exists
C29_EmptyTodoSkipsToTheStages ==
    [][/\ (pc = "checked" /\ pc' # pc /\ Len(todo) = 0) =>
             /\ pc' = "post"
             /\ unit' = NoUnits
             /\ fan_id' = NoGen /\ blotch_id' = NoGen
             /\ PerTileUnchanged
       /\ (pc = "post" /\ pc' # pc) =>
             /\ pc' = "idle"
             /\ Len(stages') = Len(StageNames)
             /\ \A i \in 1..Len(StageNames) : stages'[i] = <<StageNames[i], obsids>>
             /\ PerTileUnchanged
             /\ Len(todo) = 0 => fan_id = NoGen /\ blotch_id = NoGen /\ unit = NoUnits
       /\ (unit' # unit) =>
             \A o \in Obs : unit'[o] \in {"pending", "running", "done"} =>
                 o \in Range(todo)
       /\ (files' # files \/ fnotched' # fnotched \/ exists' # exists) =>
             /\ Len(todo) > 0
             /\ \A o \in Obs :
                   (files'[o] # files[o] \/ fnotched'[o] # fnotched[o]
                    \/ exists'[o] # exists[o]) => o \in Range(todo)]_vars

C29_Witness ==
    /\ pc = "idle"
    /\ Len(todo) = 0
    /\ Len(obsids) = 2
    /\ Len(stages) = Len(StageNames)
    /\ stages[1] = <<"create_roi_file", obsids>>
    /\ stages[6] = <<"merge_all", obsids>>
    /\ \A o \in Range(obsids) : fnotched[o]

\* C30: merge_fnotch_results gives its own output back unchanged, and its
\* result does not depend on the order of the rows it is given: with two
\* rows exchanged (so with the rows in any order) the marking_ids and the
\* averaged vote_ratios are the same, and the whole result is the same when
\* image_id and obsid are the same in all rows of a marking_id.  An averaged
\* vote_ratio lies between the smallest and the largest vote_ratio of the
\* rows it was averaged from, and so between 0 and 1.
LessEq(a, b) == a.n * b.d <= b.n * a.d
Swap(df, i, j) ==
    [r \in 1..Len(df) |-> IF r = i THEN df[j] ELSE IF r = j THEN df[i] ELSE df[r]]
IdentityConstant(df) ==
    \A i, j \in 1..Len(df) :
        df[i].marking_id = df[j].marking_id =>
            df[i].image_id = df[j].image_id /\ df[i].obsid = df[j].obsid
SameIdsAndRatios(r, t) ==
    /\ Len(r) = Len(t)
    /\ \A m \in 1..Len(t) :
          r[m].marking_id = t[m].marking_id /\ r[m].vote_ratio = t[m].vote_ratio
WithinDuplicates(row, df) ==
    row.vote_ratio # NaN =>
        /\ \E i, j \in 1..Len(df) :
              /\ df[i].marking_id = row.marking_id /\ df[i].vote_ratio # NaN
              /\ df[j].marking_id = row.marking_id /\ df[j].vote_ratio # NaN
              /\ LessEq(df[i].vote_ratio, row.vote_ratio)
              /\ LessEq(row.vote_ratio, df[j].vote_ratio)
        /\ LessEq(Num(0), row.vote_ratio)
        /\ LessEq(row.vote_ratio, VoteRatioOne)
====
